---- MODULE Spec2Model ----
(***************************************************************************)
(* Model of makina.recipe.postgres (src/makina/recipe/postgres/__init__.py) *)
(* : the zc.buildout recipe that provisions a local PostgreSQL instance.    *)
(*                                                                          *)
(* Strings are modelled as sequences of pieces (single characters where the *)
(* code looks inside the string: option keys, "true"; longer pieces where   *)
(* the code only copies the text).  An options mapping is a function from   *)
(* keys to values.  The filesystem is the data directory, its two           *)
(* configuration files, the PID file, the location directory and the        *)
(* generated scripts.  External binaries are the environment: every call    *)
(* exits zero or non-zero, chosen nondeterministically.                     *)
(***************************************************************************)
EXTENDS Integers, Sequences, FiniteSets, TLC

(* ------------------------------ bounds --------------------------------- *)

\* number of install/update/uninstall runs explored in one behaviour
MaxRuns == 3

(* ----------------------- strings and characters ------------------------ *)

\* the characters of option keys in code-point order ('-' 45, '.' 46, '_' 95, a-z)
Alphabet ==
    << "-", ".", "_", "a", "b", "c", "d", "e", "f", "g", "h", "i", "j", "k",
       "l", "m", "n", "o", "p", "q", "r", "s", "t", "u", "v", "w", "x", "y",
       "z" >>

Ord(c) == CHOOSE i \in 1..Len(Alphabet) : Alphabet[i] = c

\* Python's str < str : lexicographic on code points, a proper prefix is smaller
RECURSIVE StrLess(_, _)
StrLess(a, b) ==
    IF b = <<>> THEN FALSE
    ELSE IF a = <<>> THEN TRUE
    ELSE IF Head(a) = Head(b) THEN StrLess(Tail(a), Tail(b))
    ELSE Ord(Head(a)) < Ord(Head(b))

\* str.startswith
startswith(s, p) == Len(s) >= Len(p) /\ SubSeq(s, 1, Len(p)) = p

\* s.split(".", 1)[1] : what follows the first "."
RECURSIVE split1(_)
split1(s) == IF Head(s) = "." THEN Tail(s) ELSE split1(Tail(s))

\* str.lower on the characters the option values use
lowerChar(c) ==
    CASE c = "T" -> "t" [] c = "R" -> "r" [] c = "U" -> "u" [] c = "E" -> "e"
      [] OTHER -> c

lower(s) == [i \in 1..Len(s) |-> lowerChar(s[i])]

\* str.strip : drop leading and trailing line separators / blanks
IsSpace(c) == c \in {"\n", " "}

RECURSIVE lstrip(_)
lstrip(s) == IF s # <<>> /\ IsSpace(Head(s)) THEN lstrip(Tail(s)) ELSE s

RECURSIVE rstrip(_)
rstrip(s) ==
    IF s # <<>> /\ IsSpace(s[Len(s)]) THEN rstrip(SubSeq(s, 1, Len(s) - 1)) ELSE s

strip(s) == rstrip(lstrip(s))

\* os.path.join(a, b)
join(a, b) == a \o <<"/">> \o b

(* ------------------------------ option keys ---------------------------- *)

CONFIG_PREFIX == << "c", "o", "n", "f", "i", "g", "." >>

K_pgdata == << "p", "g", "d", "a", "t", "a" >>
K_bin == << "b", "i", "n" >>
K_port == << "p", "o", "r", "t" >>
K_initdb == << "i", "n", "i", "t", "d", "b" >>
K_cmds == << "c", "m", "d", "s" >>
K_location == << "l", "o", "c", "a", "t", "i", "o", "n" >>
K_prefix == << "p", "r", "e", "f", "i", "x" >>
K_bin_directory == << "b", "i", "n", "-", "d", "i", "r", "e", "c", "t", "o", "r", "y" >>
K_socket_dir == << "s", "o", "c", "k", "e", "t", "_", "d", "i", "r" >>
K_unix_socket_directories ==
    << "u", "n", "i", "x", "_", "s", "o", "c", "k", "e", "t", "_",
       "d", "i", "r", "e", "c", "t", "o", "r", "i", "e", "s" >>
K_unix_socket_permissions ==
    << "u", "n", "i", "x", "_", "s", "o", "c", "k", "e", "t", "_",
       "p", "e", "r", "m", "i", "s", "s", "i", "o", "n", "s" >>
K_listen_addresses ==
    << "l", "i", "s", "t", "e", "n", "_", "a", "d", "d", "r", "e", "s", "s", "e", "s" >>
\* a server directive the resolver has no default for
K_max_connections ==
    << "m", "a", "x", "_", "c", "o", "n", "n", "e", "c", "t", "i", "o", "n", "s" >>

\* the commands that get a wrapper script
C_pg_ctl == << "p", "g", "_", "c", "t", "l" >>
C_postgres == << "p", "o", "s", "t", "g", "r", "e", "s" >>
C_psql == << "p", "s", "q", "l" >>
C_pg_isready == << "p", "g", "_", "i", "s", "r", "e", "a", "d", "y" >>

\* the name of the buildout part
PartName == << "d", "b" >>

\* the [buildout] section seen by install/update; uninstall passes {}
PartsDirectory == << "/b/parts" >>
BuildoutBinDirectory == << "/b/bin" >>

(* --------------------------- options mappings -------------------------- *)

Has(o, k) == k \in DOMAIN o

\* dict.get(k, default)
Get(o, k, default) == IF Has(o, k) THEN o[k] ELSE default

\* o[k] = v
Put(o, k, v) == [x \in (DOMAIN o) \cup {k} |-> IF x = k THEN v ELSE o[x]]

\* dict.setdefault(k, v), the mapping after the call
SetDefault(o, k, v) == IF Has(o, k) THEN o ELSE Put(o, k, v)

EmptyOptions == [x \in {} |-> <<>>]

(* --------------------- the configuration resolver ---------------------- *)

\* the buildout mapping: install and update see the [buildout] section,
\* uninstall passes the empty mapping
InstallBuildout ==
    [x \in {"parts-directory", "bin-directory"} |->
        IF x = "parts-directory" THEN PartsDirectory ELSE BuildoutBinDirectory]

UninstallBuildout == [x \in {} |-> <<>>]

\* repr() of a path: the text in single quotes
repr(s) == <<"'">> \o s \o <<"'">>

K_config_port == CONFIG_PREFIX \o K_port

\* options after the location default
WithLocation(buildout, o) ==
    IF Has(o, K_location) THEN o
    ELSE LET loc == join(buildout["parts-directory"], PartName)
         IN  Put(Put(o, K_prefix, loc), K_location, loc)

\* the key the KeyError names, <<>> when both mandatory options are given
MissingOption(o) ==
    IF ~Has(o, K_pgdata) THEN K_pgdata
    ELSE IF ~Has(o, K_bin) THEN K_bin
    ELSE <<>>

\* options after the bin-directory, socket and listen defaults
WithDefaults(buildout, o) ==
    LET o1 == SetDefault(o, K_bin_directory,
                         IF "bin-directory" \in DOMAIN buildout
                         THEN buildout["bin-directory"] ELSE <<"bin">>)
        socket_dir == Get(o1, K_socket_dir, o1[K_pgdata])
        o2 == SetDefault(o1, CONFIG_PREFIX \o K_unix_socket_directories,
                         <<"'">> \o socket_dir \o <<"'">>)
        o3 == SetDefault(o2, CONFIG_PREFIX \o K_unix_socket_permissions, <<"0700">>)
    IN  SetDefault(o3, CONFIG_PREFIX \o K_listen_addresses, <<"''">>)

DefaultPort == <<"5432">>

\* the port branch with the default forced into the server configuration too
WithPort_always(o) ==
    LET p == Get(o, K_port, DefaultPort)
    IN  Put(Put(o, K_port, p), K_config_port, p)

\* the port branch: an explicit port goes to the server configuration,
\* a missing one becomes the recorded client default
WithPort(o) ==
    IF Has(o, K_port) THEN Put(o, K_config_port, o[K_port])
    ELSE Put(o, K_port, DefaultPort)

\* initdb = true expands to the default arguments
WithInitdb(o) ==
    IF lower(Get(o, K_initdb, <<>>)) = <<"t", "r", "u", "e">>
    THEN Put(o, K_initdb, <<"--auth-local=trust --pgdata=">> \o o[K_pgdata])
    ELSE o

\* the options mapping as Recipe.__init__ leaves it
ResolvedOptions(buildout, o) ==
    IF MissingOption(o) # <<>> THEN WithLocation(buildout, o)
    ELSE WithInitdb(WithPort(WithDefaults(buildout, WithLocation(buildout, o))))

\* the attributes of the constructed recipe; bin_pg_ctl and bin_pg_isready
\* are the class attributes until create_bin_script sets them
RecipeAttrs(buildout, o) ==
    LET r == ResolvedOptions(buildout, o)
        socket_dir == Get(r, K_socket_dir, r[K_pgdata])
    IN  [ pgdata |-> r[K_pgdata],
          pg_bin_dir |-> r[K_bin],
          bin_dir |-> r[K_bin_directory],
          socket_dir |-> socket_dir,
          port |-> r[K_port],
          cmds |-> strip(Get(r, K_cmds, <<>>)),
          bin_pg_ctl |-> <<>>,
          bin_pg_isready |-> <<>>,
          pg_server_env |-> <<"PGDATA=">> \o repr(r[K_pgdata]),
          pg_client_env |-> <<"PGHOST=">> \o repr(socket_dir)
                              \o <<" PGPORT=">> \o r[K_port] ]

\* the recipe before the constructor has run
NoRecipe ==
    [ pgdata |-> <<>>, pg_bin_dir |-> <<>>, bin_dir |-> <<>>, socket_dir |-> <<>>,
      port |-> <<>>, cmds |-> <<>>, bin_pg_ctl |-> <<>>, bin_pg_isready |-> <<>>,
      pg_server_env |-> <<>>, pg_client_env |-> <<>> ]

(* ------------------------- the config file merger ---------------------- *)

local_conf_filename == "postgresql.local.conf"

\* the include directive, one piece of text: include = 'postgresql.local.conf'
include_local_conf == "include = '" \o local_conf_filename \o "'"

\* include_re.search(conf): the pattern is "^" + the escaped directive,
\* compiled without re.MULTILINE, so "^" matches at the start of the text only
include_re_search(conf) == conf # <<>> /\ Head(conf) = include_local_conf

\* the text of postgresql.conf after the include step
MainConfAfter(conf) ==
    IF include_re_search(conf) THEN conf
    ELSE conf \o <<"\n", "\n", include_local_conf, "\n">>

\* sorted() turned round: descending
RECURSIVE sorted_descending(_)
sorted_descending(S) ==
    IF S = {} THEN <<>>
    ELSE LET m == CHOOSE x \in S : \A y \in S \ {x} : StrLess(y, x)
         IN  <<m>> \o sorted_descending(S \ {m})

\* sorted(): ascending by str comparison
RECURSIVE sorted(_)
sorted(S) ==
    IF S = {} THEN <<>>
    ELSE LET m == CHOOSE x \in S : \A y \in S \ {x} : StrLess(x, y)
         IN  <<m>> \o sorted(S \ {m})

IsConfigName(name) == startswith(name, CONFIG_PREFIX)

\* "{name} = {value}" for one option
ConfLine(o, name) == split1(name) \o <<" = ">> \o o[name]

\* "\n".join(lines)
RECURSIVE JoinLines(_)
JoinLines(lines) ==
    IF lines = <<>> THEN <<>>
    ELSE IF Len(lines) = 1 THEN lines[1]
    ELSE lines[1] \o <<"\n">> \o JoinLines(Tail(lines))

\* the text written to postgresql.local.conf
local_conf(o) ==
    LET names == SelectSeq(sorted(DOMAIN o), IsConfigName)
    IN  JoinLines([i \in 1..Len(names) |-> ConfLine(o, names[i])])

(* ------------------------------ the file system ------------------------ *)

Absent == [exists |-> FALSE, text |-> <<>>]
File(text) == [exists |-> TRUE, text |-> text]

\* s.split(os.linesep)
RECURSIVE splitlines(_)
splitlines(s) ==
    IF \A i \in 1..Len(s) : s[i] # "\n" THEN <<s>>
    ELSE LET i == CHOOSE j \in 1..Len(s) :
                      s[j] = "\n" /\ \A k \in 1..(j - 1) : s[k] # "\n"
         IN  <<SubSeq(s, 1, i - 1)>> \o splitlines(SubSeq(s, i + 1, Len(s)))

\* what one step of a run did: a file or directory written, a subprocess run
\* (argv and exit status), a sleep (rc holds the seconds)
Wrote(path) == [op |-> "write", argv |-> <<path>>, rc |-> 0]
Mkdir(path) == [op |-> "mkdir", argv |-> <<path>>, rc |-> 0]
Call(argv, rc) == [op |-> "call", argv |-> argv, rc |-> rc]
Sleep(secs) == [op |-> "sleep", argv |-> <<>>, rc |-> secs]
ScriptsWritten == [op |-> "scripts", argv |-> <<>>, rc |-> 0]

\* the exit statuses a subprocess can end with
ExitCodes == {0, 1}

\* a readiness loop that gives up one attempt early
ReadinessAttempts_short == 10 - 1

\* range(10) in startdb, time.sleep(1) between probes, time.sleep(4) after stop
ReadinessAttempts == 10
ProbeInterval == 1
StopSettle == 4

(* ------------------------------- inputs -------------------------------- *)

Remove(o, k) == [x \in (DOMAIN o) \ {k} |-> o[x]]

PgData == <<"/data/pg">>
PgBin == <<"/opt/pg/bin">>

O_min == Put(Put(EmptyOptions, K_pgdata, PgData), K_bin, PgBin)

O_initdb == Put(O_min, K_initdb, <<"t", "r", "u", "e">>)

\* port, initdb = TRUE and two commands around an empty entry
O_scenario ==
    Put(Put(Put(O_min, K_port, <<"5544">>), K_initdb, <<"T", "R", "U", "E">>),
        K_cmds, <<"\n", "createdb", "\n", "\n", "createuser", "\n">>)

\* no port, but server directives given directly
O_directives ==
    Put(Put(Put(Put(O_min, K_config_port, <<"5433">>),
                CONFIG_PREFIX \o K_max_connections, <<"100">>),
            K_initdb, <<"t", "r", "u", "e">>),
        K_cmds, <<"createdb">>)

\* a port, and a port directive that differs from it
O_port ==
    Put(Put(Put(O_min, K_port, <<"5544">>), K_config_port, <<"5433">>),
        CONFIG_PREFIX \o K_max_connections, <<"100">>)

O_custom ==
    Put(Put(O_min, K_initdb, <<"-D /data/pg">>), K_socket_dir, <<"/tmp/sock">>)

\* initdb given, but empty
O_blank == Put(O_min, K_initdb, <<>>)

\* the options mappings a buildout part hands to the recipe
RawOptions ==
    { O_min, O_initdb, O_scenario, O_directives, O_port, O_custom, O_blank,
      Remove(O_scenario, K_pgdata), Remove(O_port, K_bin),
      Remove(Remove(O_min, K_pgdata), K_bin) }

\* postgresql.conf as initdb writes it
InitdbConf == <<"max_connections = 100", "\n">>

\* postgresql.conf of a data directory that exists before the first run:
\* as initdb left it, empty, with the directive on its first line, or as one
\* earlier configure() left it
ExistingConfs ==
    { InitdbConf,
      <<>>,
      <<include_local_conf, "\n", "max_connections = 100", "\n">>,
      MainConfAfter(InitdbConf) }

\* postgresql.local.conf left by an earlier run with other options
StaleLocalConf == <<"o", "l", "d", " = ", "1">>

(* -------------------------------- state -------------------------------- *)

VARIABLES
    pc,             \* where the running operation stands, "idle" between runs
    op,             \* the operation of the current or last run
    runs,           \* runs started so far
    raw,            \* the options mapping the constructor was given
    options,        \* self.options
    self,           \* the attributes of the recipe
    branch,         \* what install found at its branch point
    attempt,        \* iterations of the readiness loop completed
    cmdsLeft,       \* the entries of cmds still to be looked at
    result,         \* how the run ended: "returned" or the exception raised
    retval,         \* the value install returned
    errkey,         \* the option a UserError names
    stopSaw,        \* what is_db_started() told stopdb in this run
    trace,          \* the side effects of the current or last run, in order
    pgdataExists,   \* the data directory
    mainConf,       \* postgresql.conf
    localConf,      \* postgresql.local.conf
    pidFile,        \* postmaster.pid
    locationExists, \* the part's location directory
    scripts,        \* the files in bin-directory, path -> code
    installed,      \* the options buildout recorded when install last returned
    initRuns,       \* the runs in which initdb made the data directory
    cmdRuns         \* the runs in which a command of cmds was executed

runVars == <<pc, op, runs, raw, options, self, branch, attempt, cmdsLeft, result, retval,
            errkey, stopSaw, trace>>
fsVars == <<pgdataExists, mainConf, localConf, pidFile, locationExists, scripts>>
vars == <<runVars, fsVars, installed, initRuns, cmdRuns>>

NotInstalled == [present |-> FALSE, options |-> EmptyOptions]

Init ==
    /\ pc = "idle"
    /\ op = "none"
    /\ runs = 0
    /\ raw = EmptyOptions
    /\ options = EmptyOptions
    /\ self = NoRecipe
    /\ branch = "none"
    /\ attempt = 0
    /\ cmdsLeft = <<>>
    /\ result = "none"
    /\ retval = <<>>
    /\ errkey = <<>>
    /\ stopSaw = "none"
    /\ trace = <<>>
    /\ pgdataExists \in BOOLEAN
    /\ mainConf \in IF pgdataExists THEN {Absent} \cup {File(c) : c \in ExistingConfs}
                    ELSE {Absent}
    /\ localConf \in IF mainConf.exists THEN {Absent, File(StaleLocalConf)} ELSE {Absent}
    /\ pidFile \in IF mainConf.exists THEN BOOLEAN ELSE {FALSE}
    /\ locationExists \in BOOLEAN
    /\ scripts = [x \in {} |-> <<>>]
    /\ installed = NotInstalled
    /\ initRuns = {}
    /\ cmdRuns = {}

(* ------------------------------ operations ----------------------------- *)

\* NewRecipe with the location directory made in the constructor, before the
\* mandatory options are looked at
NewRecipe_mkdirFirst ==
    /\ pc = "idle"
    /\ runs < MaxRuns
    /\ \E o \in RawOptions :
        /\ raw' = o
        /\ options' = ResolvedOptions(InstallBuildout, o)
        /\ errkey' = MissingOption(o)
        /\ IF MissingOption(o) # <<>>
           THEN /\ self' = NoRecipe
                /\ result' = "UserError"
                /\ pc' = "idle"
           ELSE /\ self' = RecipeAttrs(InstallBuildout, o)
                /\ result' = "none"
                /\ pc' = "scripts"
    /\ op' = "install"
    /\ runs' = runs + 1
    /\ branch' = "none"
    /\ attempt' = 0
    /\ cmdsLeft' = <<>>
    /\ retval' = <<>>
    /\ stopSaw' = "none"
    /\ locationExists' = TRUE
    /\ trace' = IF locationExists THEN <<>> ELSE <<Mkdir(options'[K_location])>>
    /\ UNCHANGED <<pgdataExists, mainConf, localConf, pidFile, scripts, installed>>
    /\ UNCHANGED <<initRuns, cmdRuns>>

\* Recipe.__init__ as install and update reach it: a run starts
NewRecipe ==
    /\ pc = "idle"
    /\ runs < MaxRuns
    /\ \E o \in RawOptions :
        /\ raw' = o
        /\ options' = ResolvedOptions(InstallBuildout, o)
        /\ errkey' = MissingOption(o)
        /\ IF MissingOption(o) # <<>>
           THEN /\ self' = NoRecipe
                /\ result' = "UserError"
                /\ pc' = "idle"
           ELSE /\ self' = RecipeAttrs(InstallBuildout, o)
                /\ result' = "none"
                /\ pc' = "scripts"
    /\ op' = "install"
    /\ runs' = runs + 1
    /\ branch' = "none"
    /\ attempt' = 0
    /\ cmdsLeft' = <<>>
    /\ retval' = <<>>
    /\ stopSaw' = "none"
    /\ trace' = <<>>
    /\ UNCHANGED <<fsVars, installed>>
    /\ UNCHANGED <<initRuns, cmdRuns>>

\* the text of one generated script
ScriptCode(template, env, command) ==
    [template |-> template, env |-> env, bin |-> self.pg_bin_dir, command |-> command]

\* create_bin_scripts without its second loop: the four wrappers only
ScriptCodes_noDispatchers ==
    [c \in {C_pg_ctl, C_postgres, C_psql, C_pg_isready} |->
        IF c \in {C_pg_ctl, C_postgres} THEN ScriptCode("command", self.pg_server_env, c)
        ELSE ScriptCode("command", self.pg_client_env, c)]

\* command name -> code, for the four wrappers and the two dispatchers
ScriptCodes ==
    LET server == PartName \o <<"_", "s", "e", "r", "v", "e", "r">>
        client == PartName \o <<"_", "c", "l", "i", "e", "n", "t">>
    IN  [c \in {C_pg_ctl, C_postgres, C_psql, C_pg_isready, server, client} |->
            IF c \in {C_pg_ctl, C_postgres} THEN ScriptCode("command", self.pg_server_env, c)
            ELSE IF c \in {C_psql, C_pg_isready} THEN ScriptCode("command", self.pg_client_env, c)
            ELSE IF c = server THEN ScriptCode("shift", self.pg_server_env, <<"$command">>)
            ELSE ScriptCode("shift", self.pg_client_env, <<"$command">>)]

\* install up to its branch point: create_bin_scripts, then the location directory
CreateBinScripts ==
    /\ pc = "scripts"
    /\ LET codes == ScriptCodes
           path(c) == join(self.bin_dir, c)
           paths == {path(c) : c \in DOMAIN codes}
       IN  /\ scripts' = [f \in (DOMAIN scripts) \cup paths |->
                            IF f \in paths
                            THEN codes[CHOOSE c \in DOMAIN codes : path(c) = f]
                            ELSE scripts[f]]
           /\ self' = [self EXCEPT !.bin_pg_ctl = path(C_pg_ctl),
                                   !.bin_pg_isready = path(C_pg_isready)]
           /\ options' = [k \in (DOMAIN options) \cup (DOMAIN codes) |->
                            IF k \in DOMAIN codes THEN path(k) ELSE options[k]]
    /\ locationExists' = TRUE
    /\ trace' = trace \o <<ScriptsWritten>>
                      \o (IF locationExists THEN <<>> ELSE <<Mkdir(options[K_location])>>)
    /\ pc' = "branch"
    /\ UNCHANGED <<op, runs, raw, errkey, stopSaw, branch, attempt, cmdsLeft, result, retval,
                   pgdataExists, mainConf, localConf, pidFile, installed>>
    /\ UNCHANGED <<initRuns, cmdRuns>>

\* configure that takes a missing postgresql.conf for an empty one
configure_lenient(next) ==
    LET conf_file == join(self.pgdata, <<"postgresql.conf">>)
        local_file == join(self.pgdata, <<local_conf_filename>>)
    IN  /\ mainConf' = File(MainConfAfter(mainConf.text))
        /\ localConf' = File(local_conf(options))
        /\ trace' = trace
             \o (IF include_re_search(mainConf.text) THEN <<>> ELSE <<Wrote(conf_file)>>)
             \o <<Wrote(local_file)>>
        /\ pc' = next
        /\ IF next = "idle"
           THEN /\ result' = "returned"
                /\ retval' = options[K_location]
                /\ installed' = [present |-> TRUE, options |-> options]
           ELSE UNCHANGED <<result, retval, installed>>

\* Recipe.configure; the run goes on at `next`, or ends there when next is "idle"
configure(next) ==
    LET conf_file == join(self.pgdata, <<"postgresql.conf">>)
        local_file == join(self.pgdata, <<local_conf_filename>>)
    IN  IF ~mainConf.exists
        THEN /\ result' = "IOError"
             /\ pc' = "idle"
             /\ UNCHANGED <<mainConf, localConf, trace, retval, installed>>
        ELSE /\ mainConf' = File(MainConfAfter(mainConf.text))
             /\ localConf' = File(local_conf(options))
             /\ trace' = trace
                  \o (IF include_re_search(mainConf.text) THEN <<>> ELSE <<Wrote(conf_file)>>)
                  \o <<Wrote(local_file)>>
             /\ pc' = next
             /\ IF next = "idle"
                THEN /\ result' = "returned"
                     /\ retval' = options[K_location]
                     /\ installed' = [present |-> TRUE, options |-> options]
                ELSE UNCHANGED <<result, retval, installed>>

\* InstallExisting without its return: the run goes on into startdb
InstallExisting_noReturn ==
    /\ pc = "branch"
    /\ pgdataExists
    /\ branch' = "existing"
    /\ configure("start")
    /\ UNCHANGED <<op, runs, raw, errkey, stopSaw, options, self, attempt, cmdsLeft,
                   pgdataExists, pidFile, locationExists, scripts>>
    /\ UNCHANGED <<initRuns, cmdRuns>>

\* install on an existing data directory: configure and return
InstallExisting ==
    /\ pc = "branch"
    /\ pgdataExists
    /\ branch' = "existing"
    /\ configure("idle")
    /\ UNCHANGED <<op, runs, raw, errkey, stopSaw, options, self, attempt, cmdsLeft,
                   pgdataExists, pidFile, locationExists, scripts>>
    /\ UNCHANGED <<initRuns, cmdRuns>>

\* check_call and call start the program only when its path names one: with
\* the empty path the exec fails (OSError) and no process runs
Spawns(program) == program # <<>>

\* Initdb with the exit status of the binary dropped (call for check_call)
Initdb_unchecked ==
    /\ pc = "branch"
    /\ ~pgdataExists
    /\ branch' = "fresh"
    /\ LET initdb_options == Get(options, K_initdb, <<>>)
           initdb == join(self.pg_bin_dir, <<"initdb">>)
       IN  IF initdb_options # <<>> /\ ~pgdataExists
           THEN \E rc \in ExitCodes :
                   /\ trace' = trace \o <<Call(<<initdb \o <<" ">> \o initdb_options>>, rc)>>
                   /\ IF rc = 0
                      THEN /\ pgdataExists' = TRUE
                           /\ mainConf' = File(InitdbConf)
                           /\ pc' = "configure"
                           /\ result' = result
                      ELSE /\ result' = result
                           /\ pc' = "configure"
                           /\ UNCHANGED <<pgdataExists, mainConf>>
           ELSE /\ pc' = "configure"
                /\ UNCHANGED <<trace, pgdataExists, mainConf, result>>
    /\ UNCHANGED <<op, runs, raw, errkey, stopSaw, options, self, attempt, cmdsLeft, retval,
                   localConf, pidFile, locationExists, scripts, installed>>
    /\ initRuns' = IF pgdataExists' /\ ~pgdataExists THEN initRuns \cup {runs} ELSE initRuns
    /\ UNCHANGED cmdRuns

\* install without the test that leaves an existing data directory alone
Initdb_anyway ==
    /\ pc = "branch"
    /\ branch' = "fresh"
    /\ LET initdb_options == Get(options, K_initdb, <<>>)
           initdb == join(self.pg_bin_dir, <<"initdb">>)
       IN  IF initdb_options # <<>> /\ ~pgdataExists
           THEN \E rc \in ExitCodes :
                   /\ trace' = trace \o <<Call(<<initdb \o <<" ">> \o initdb_options>>, rc)>>
                   /\ IF rc = 0
                      THEN /\ pgdataExists' = TRUE
                           /\ mainConf' = File(InitdbConf)
                           /\ pc' = "configure"
                           /\ result' = result
                      ELSE /\ result' = "CalledProcessError"
                           /\ pc' = "idle"
                           /\ UNCHANGED <<pgdataExists, mainConf>>
           ELSE /\ pc' = "configure"
                /\ UNCHANGED <<trace, pgdataExists, mainConf, result>>
    /\ UNCHANGED <<op, runs, raw, errkey, stopSaw, options, self, attempt, cmdsLeft, retval,
                   localConf, pidFile, locationExists, scripts, installed>>
    /\ initRuns' = IF pgdataExists' /\ ~pgdataExists THEN initRuns \cup {runs} ELSE initRuns
    /\ UNCHANGED cmdRuns

\* install without a data directory, first step: Recipe.initdb
Initdb ==
    /\ pc = "branch"
    /\ ~pgdataExists
    /\ branch' = "fresh"
    /\ LET initdb_options == Get(options, K_initdb, <<>>)
           initdb == join(self.pg_bin_dir, <<"initdb">>)
       IN  IF initdb_options # <<>> /\ ~pgdataExists
           THEN \E rc \in ExitCodes :
                   /\ trace' = trace \o <<Call(<<initdb \o <<" ">> \o initdb_options>>, rc)>>
                   /\ IF rc = 0
                      THEN /\ pgdataExists' = TRUE
                           /\ mainConf' = File(InitdbConf)
                           /\ pc' = "configure"
                           /\ result' = result
                      ELSE /\ result' = "CalledProcessError"
                           /\ pc' = "idle"
                           /\ UNCHANGED <<pgdataExists, mainConf>>
           ELSE /\ pc' = "configure"
                /\ UNCHANGED <<trace, pgdataExists, mainConf, result>>
    /\ UNCHANGED <<op, runs, raw, errkey, stopSaw, options, self, attempt, cmdsLeft, retval,
                   localConf, pidFile, locationExists, scripts, installed>>
    /\ initRuns' = IF pgdataExists' /\ ~pgdataExists THEN initRuns \cup {runs} ELSE initRuns
    /\ UNCHANGED cmdRuns

\* second step: configure
Configure ==
    /\ pc = "configure"
    /\ configure("start")
    /\ UNCHANGED <<op, runs, raw, errkey, stopSaw, options, self, branch, attempt, cmdsLeft,
                   pgdataExists, pidFile, locationExists, scripts>>
    /\ UNCHANGED <<initRuns, cmdRuns>>

\* startdb with the PID-file test turned round
StartCmd_swapped ==
    /\ pc = "start"
    /\ LET cmd == IF pidFile THEN <<"start">> ELSE <<"restart">>
       IN  IF ~Spawns(self.bin_pg_ctl)
           THEN /\ result' = "OSError"
                /\ pc' = "idle"
                /\ UNCHANGED <<trace, pidFile>>
           ELSE \E rc \in ExitCodes :
                   /\ trace' = trace \o <<Call(<<self.bin_pg_ctl, cmd>>, rc)>>
                   /\ IF rc = 0
                      THEN /\ pidFile' = TRUE
                           /\ pc' = "poll"
                           /\ result' = result
                      ELSE /\ result' = "CalledProcessError"
                           /\ pc' = "idle"
                           /\ UNCHANGED pidFile
    /\ attempt' = 0
    /\ UNCHANGED <<op, runs, raw, errkey, stopSaw, options, self, branch, cmdsLeft, retval,
                   pgdataExists, mainConf, localConf, locationExists, scripts, installed>>
    /\ UNCHANGED <<initRuns, cmdRuns>>

\* startdb with the exit status of the server-control command dropped
StartCmd_unchecked ==
    /\ pc = "start"
    /\ LET cmd == IF pidFile THEN <<"restart">> ELSE <<"start">>
       IN  IF ~Spawns(self.bin_pg_ctl)
           THEN /\ result' = "OSError"
                /\ pc' = "idle"
                /\ UNCHANGED <<trace, pidFile>>
           ELSE \E rc \in ExitCodes :
                   /\ trace' = trace \o <<Call(<<self.bin_pg_ctl, cmd>>, rc)>>
                   /\ IF rc = 0
                      THEN /\ pidFile' = TRUE
                           /\ pc' = "poll"
                           /\ result' = result
                      ELSE /\ result' = result
                           /\ pc' = "poll"
                           /\ UNCHANGED pidFile
    /\ attempt' = 0
    /\ UNCHANGED <<op, runs, raw, errkey, stopSaw, options, self, branch, cmdsLeft, retval,
                   pgdataExists, mainConf, localConf, locationExists, scripts, installed>>
    /\ UNCHANGED <<initRuns, cmdRuns>>

\* Recipe.startdb up to the readiness loop
StartCmd ==
    /\ pc = "start"
    /\ LET cmd == IF pidFile THEN <<"restart">> ELSE <<"start">>
       IN  IF ~Spawns(self.bin_pg_ctl)
           THEN /\ result' = "OSError"
                /\ pc' = "idle"
                /\ UNCHANGED <<trace, pidFile>>
           ELSE \E rc \in ExitCodes :
                   /\ trace' = trace \o <<Call(<<self.bin_pg_ctl, cmd>>, rc)>>
                   /\ IF rc = 0
                      THEN /\ pidFile' = TRUE
                           /\ pc' = "poll"
                           /\ result' = result
                      ELSE /\ result' = "CalledProcessError"
                           /\ pc' = "idle"
                           /\ UNCHANGED pidFile
    /\ attempt' = 0
    /\ UNCHANGED <<op, runs, raw, errkey, stopSaw, options, self, branch, cmdsLeft, retval,
                   pgdataExists, mainConf, localConf, locationExists, scripts, installed>>
    /\ UNCHANGED <<initRuns, cmdRuns>>

\* one iteration of the readiness loop, and what follows the loop
Probe ==
    /\ pc = "poll"
    /\ IF ~Spawns(self.bin_pg_isready)
       THEN /\ result' = "OSError"
            /\ pc' = "idle"
            /\ UNCHANGED <<trace, attempt, cmdsLeft>>
       ELSE \E rc \in ExitCodes :
               /\ attempt' = attempt + 1
               /\ IF rc = 0
                  THEN /\ trace' = trace \o <<Call(<<self.bin_pg_isready>>, rc)>>
                       /\ pc' = "cmds"
                       /\ cmdsLeft' = IF self.cmds = <<>> THEN <<>>
                                      ELSE splitlines(self.cmds)
                       /\ result' = result
                  ELSE /\ trace' = trace \o <<Call(<<self.bin_pg_isready>>, rc),
                                              Sleep(ProbeInterval)>>
                       /\ cmdsLeft' = cmdsLeft
                       /\ IF attempt' = ReadinessAttempts
                          THEN result' = "RuntimeError" /\ pc' = "idle"
                          ELSE result' = result /\ pc' = "poll"
    /\ UNCHANGED <<op, runs, raw, errkey, stopSaw, options, self, branch, retval, fsVars, installed>>
    /\ UNCHANGED <<initRuns, cmdRuns>>

\* one iteration of the loop of Recipe.do_cmds
DoCmd ==
    /\ pc = "cmds"
    /\ cmdsLeft # <<>>
    /\ LET cmd == Head(cmdsLeft)
       IN  IF cmd = <<>>
           THEN trace' = trace
           ELSE \E rc \in ExitCodes :
                   trace' = trace \o <<Call(<<join(self.pg_bin_dir, cmd)>>, rc)>>
    /\ cmdsLeft' = Tail(cmdsLeft)
    /\ UNCHANGED <<pc, op, runs, raw, errkey, stopSaw, options, self, branch, attempt, result, retval,
                   fsVars, installed>>
    /\ cmdRuns' = IF trace' # trace THEN cmdRuns \cup {runs} ELSE cmdRuns
    /\ UNCHANGED initRuns

\* stopdb with the PID-file test turned round
stopdb_inverted(me, before) ==
    /\ stopSaw' = IF pidFile THEN "pid" ELSE "nopid"
    /\ IF ~pidFile
       THEN \E rc \in ExitCodes :
               IF rc = 0
               THEN /\ trace' = before \o <<Call(<<me.bin_pg_ctl, <<"stop">>>>, rc),
                                            Sleep(StopSettle)>>
                    /\ pidFile' = FALSE
                    /\ result' = "returned"
               ELSE /\ trace' = before \o <<Call(<<me.bin_pg_ctl, <<"stop">>>>, rc)>>
                    /\ result' = "CalledProcessError"
                    /\ UNCHANGED pidFile
       ELSE /\ result' = "returned"
            /\ trace' = before
            /\ UNCHANGED pidFile

\* Recipe.stopdb of the recipe `me`; `before` is what the run did so far
stopdb(me, before) ==
    /\ stopSaw' = IF pidFile THEN "pid" ELSE "nopid"
    /\ IF pidFile
       THEN IF ~Spawns(me.bin_pg_ctl)
            THEN /\ result' = "OSError"
                 /\ trace' = before
                 /\ UNCHANGED pidFile
            ELSE \E rc \in ExitCodes :
                    IF rc = 0
                    THEN /\ trace' = before \o <<Call(<<me.bin_pg_ctl, <<"stop">>>>, rc),
                                                 Sleep(StopSettle)>>
                         /\ pidFile' = FALSE
                         /\ result' = "returned"
                    ELSE /\ trace' = before \o <<Call(<<me.bin_pg_ctl, <<"stop">>>>, rc)>>
                         /\ result' = "CalledProcessError"
                         /\ UNCHANGED pidFile
       ELSE /\ result' = "returned"
            /\ trace' = before
            /\ UNCHANGED pidFile

\* the end of a fresh install: do_cmds is through, stopdb, return
StopDb ==
    /\ pc = "cmds"
    /\ cmdsLeft = <<>>
    /\ stopdb(self, trace)
    /\ pc' = "idle"
    /\ IF result' = "returned"
       THEN /\ retval' = options[K_location]
            /\ installed' = [present |-> TRUE, options |-> options]
       ELSE UNCHANGED <<retval, installed>>
    /\ UNCHANGED <<op, runs, raw, errkey, options, self, branch, attempt, cmdsLeft,
                   pgdataExists, mainConf, localConf, locationExists, scripts>>
    /\ UNCHANGED <<initRuns, cmdRuns>>

\* uninstall(name, options) with the options buildout recorded
Uninstall ==
    /\ pc = "idle"
    /\ runs < MaxRuns
    /\ installed.present
    /\ raw' = installed.options
    /\ options' = ResolvedOptions(UninstallBuildout, installed.options)
    /\ self' = RecipeAttrs(UninstallBuildout, installed.options)
    /\ stopdb(RecipeAttrs(UninstallBuildout, installed.options), <<>>)
    /\ op' = "uninstall"
    /\ runs' = runs + 1
    /\ branch' = "none"
    /\ attempt' = 0
    /\ cmdsLeft' = <<>>
    /\ retval' = <<>>
    /\ errkey' = <<>>
    /\ pc' = "idle"
    /\ installed' = IF result' = "returned" THEN NotInstalled ELSE installed
    /\ UNCHANGED <<pgdataExists, mainConf, localConf, locationExists, scripts>>
    /\ UNCHANGED <<initRuns, cmdRuns>>

Next ==
    \/ NewRecipe
    \/ CreateBinScripts
    \/ InstallExisting
    \/ Initdb
    \/ Configure
    \/ StartCmd
    \/ Probe
    \/ DoCmd
    \/ StopDb
    \/ Uninstall

Spec == Init /\ [][Next]_vars

(* ------------------------- what the claims speak of -------------------- *)

\* a run has ended
RunOver == pc = "idle" /\ op # "none"

ConfFile == join(self.pgdata, <<"postgresql.conf">>)
LocalConfFile == join(self.pgdata, <<local_conf_filename>>)

\* configure() has completed in the current or last run
Configured == \E i \in 1..Len(trace) : trace[i] = Wrote(LocalConfFile)

\* the number of lines of the text that start with the include directive
IncludeLines(text) ==
    Cardinality({i \in 1..Len(text) :
                    text[i] = include_local_conf /\ (i = 1 \/ text[i - 1] = "\n")})

IsCall(e) == e.op = "call"
IsProbe(e) == IsCall(e) /\ e.argv = <<self.bin_pg_isready>>
IsStop(e) == IsCall(e) /\ Len(e.argv) = 2 /\ e.argv[2] = <<"stop">>
IsStart(e) == IsCall(e) /\ Len(e.argv) = 2 /\ e.argv[2] \in {<<"start">>, <<"restart">>}
IsInitdb(e) ==
    IsCall(e) /\ Len(e.argv) = 1
        /\ startswith(e.argv[1], join(self.pg_bin_dir, <<"initdb">>) \o <<" ">>)
IsCmd(e) == IsCall(e) /\ ~IsProbe(e) /\ ~IsStop(e) /\ ~IsStart(e) /\ ~IsInitdb(e)

(* --------------------------------- C1 ---------------------------------- *)

\* C1: once configure() has run on a data directory, postgresql.conf holds
\* exactly one line that starts with the include directive.
C1_OneIncludeLine == Configured => IncludeLines(mainConf.text) = 1

(* --------------------------------- C2 ---------------------------------- *)

Location == join(PartsDirectory, PartName)

\* after script generation the run only wrote the two configuration files
OnlyConfigureAfterScripts ==
    \A i \in 1..Len(trace) :
        \/ trace[i] \in {ScriptsWritten, Mkdir(Location)} /\ i <= 2
        \/ trace[i] \in {Wrote(ConfFile), Wrote(LocalConfFile)}

\* C2 as stated: every install/update run that finds the data directory
\* existing only configures after script generation, invokes no binary, and
\* returns the location path.
C2_ExistingReturnsLocation ==
    (RunOver /\ branch = "existing") =>
        /\ OnlyConfigureAfterScripts
        /\ result = "returned"
        /\ retval = Location

\* C2 amended: every install/update run that finds the data directory
\* existing only configures after script generation and invokes no binary
\* (no initdb, start/restart, probe, command or stop, no wait); it returns the
\* location path when configure succeeds, and when postgresql.conf cannot be
\* read configure's IOError ends the run with nothing written to the data
\* directory.
C2_ExistingOnlyConfigures ==
    branch = "existing" =>
        /\ pc = "idle"
        /\ OnlyConfigureAfterScripts
        /\ \/ result = "returned" /\ retval = Location /\ Configured
           \/ /\ result = "IOError"
              /\ retval = <<>>
              /\ ~mainConf.exists
              /\ ~localConf.exists
              /\ ~Configured

\* a second run, with initdb configured, on the data directory of the first
C2_Witness ==
    /\ RunOver
    /\ runs = 2
    /\ branch = "existing"
    /\ result = "returned"
    /\ Has(raw, K_initdb)
    /\ installed.present

(* --------------------------------- C3 ---------------------------------- *)

LacksMandatory(o) == K_pgdata \notin DOMAIN o \/ K_bin \notin DOMAIN o

\* C3: constructing the recipe from options that lack pgdata or bin fails
\* with a UserError naming a missing key, and the step that fails writes no
\* file, creates no directory and runs no subprocess.
C3_MissingOptionFails ==
    [][ (op' = "install" /\ runs' = runs + 1 /\ LacksMandatory(raw')) =>
            /\ result' = "UserError"
            /\ pc' = "idle"
            /\ errkey' \in {K_pgdata, K_bin} \ DOMAIN raw'
            /\ trace' = <<>>
            /\ UNCHANGED fsVars ]_vars

\* bin is missing, in a second run over a provisioned data directory
C3_Witness ==
    /\ result = "UserError"
    /\ K_pgdata \in DOMAIN raw
    /\ K_bin \notin DOMAIN raw
    /\ errkey = K_bin
    /\ runs = 2
    /\ pgdataExists

(* --------------------------------- C4 ---------------------------------- *)

\* where the run probed for readiness
ProbeAt == {i \in 1..Len(trace) : IsProbe(trace[i])}

\* C4: the readiness loop probes at most 10 times, waits 1 second after each
\* failed probe and so between any two consecutive probes, probes no more
\* once a probe succeeded, and fails with RuntimeError ("Failed to start
\* postgres"), ending install, exactly when 10 probes in a row failed; when
\* the probe succeeds on attempt k, startdb returns after exactly k probes.
C4_ReadinessLoop ==
    /\ Cardinality(ProbeAt) <= 10
    /\ \A i \in ProbeAt :
          /\ trace[i].rc # 0 => (i < Len(trace) /\ trace[i + 1] = Sleep(1))
          /\ trace[i].rc = 0 => \A j \in ProbeAt : j <= i
          /\ (i + 1) \notin ProbeAt
          /\ \A j \in ProbeAt : j > i => (i + 2) \in ProbeAt
    /\ result = "RuntimeError" <=>
          (Cardinality(ProbeAt) = 10 /\ \A i \in ProbeAt : trace[i].rc # 0)
    /\ result = "RuntimeError" =>
          /\ pc = "idle"
          /\ retval = <<>>
          /\ (Len(trace) - 1) \in ProbeAt
          /\ \A i \in 1..Len(trace) : ~IsCmd(trace[i]) /\ ~IsStop(trace[i])
    /\ (pc = "cmds" \/ (RunOver /\ stopSaw # "none" /\ op = "install")) =>
          /\ Cardinality({i \in ProbeAt : trace[i].rc = 0}) = 1
          /\ Cardinality(ProbeAt) = attempt

\* the probe never succeeded: ten probes, ten waits, install has failed
C4_Witness ==
    /\ result = "RuntimeError"
    /\ Cardinality(ProbeAt) = 10
    /\ Cardinality({i \in 1..Len(trace) : trace[i] = Sleep(1)}) = 10
    /\ RunOver

(* --------------------------------- C5 ---------------------------------- *)

\* C5: a command of cmds that exits non-zero ends the sequence: no later
\* command and no stop is run after it, and install does not return.
C5_FailedCmdAborts ==
    \A i \in 1..Len(trace) :
        (IsCmd(trace[i]) /\ trace[i].rc # 0) =>
            /\ \A j \in (i + 1)..Len(trace) : ~IsCmd(trace[j]) /\ ~IsStop(trace[j])
            /\ result # "returned"

\* the part of C5 the code keeps: the non-empty entries of cmds run in list
\* order, each as <bin>/<entry>
CmdsInOrder ==
    LET ran == SelectSeq(trace, IsCmd)
        entries == SelectSeq(splitlines(self.cmds), LAMBDA c : c # <<>>)
    IN  /\ Len(ran) <= Len(entries)
        /\ \A i \in 1..Len(ran) : ran[i].argv = <<join(self.pg_bin_dir, entries[i])>>
        /\ (RunOver /\ result = "returned" /\ branch = "fresh") => Len(ran) = Len(entries)

(* --------------------------------- C6 ---------------------------------- *)

\* every subprocess of the run exited zero
AllSucceeded == \A i \in 1..Len(trace) : IsCall(trace[i]) => trace[i].rc = 0

\* the trace without the location directory, which only some runs create
Steps == SelectSeq(trace, LAMBDA e : e.op # "mkdir")

\* the lifecycle of a fresh install, as the events it leaves
FreshLifecycle ==
    LET entries == SelectSeq(splitlines(strip(Get(raw, K_cmds, <<>>))),
                             LAMBDA c : c # <<>>)
        initargs == IF lower(raw[K_initdb]) = <<"t", "r", "u", "e">>
                    THEN <<"--auth-local=trust --pgdata=">> \o PgData
                    ELSE raw[K_initdb]
    IN  << ScriptsWritten,
           Call(<<PgBin \o <<"/", "initdb", " ">> \o initargs>>, 0),
           Wrote(PgData \o <<"/", "postgresql.conf">>),
           Wrote(PgData \o <<"/", "postgresql.local.conf">>),
           Call(<<BuildoutBinDirectory \o <<"/">> \o C_pg_ctl, <<"start">>>>, 0),
           Call(<<BuildoutBinDirectory \o <<"/">> \o C_pg_isready>>, 0) >>
        \o [i \in 1..Len(entries) |-> Call(<<PgBin \o <<"/">> \o entries[i]>>, 0)]
        \o << Call(<<BuildoutBinDirectory \o <<"/">> \o C_pg_ctl, <<"stop">>>>, 0),
              Sleep(4) >>

\* C6: a fresh install with initdb arguments configured in which every
\* subprocess succeeds generates the scripts, runs initdb, configures, starts
\* the server, probes readiness, runs the commands and stops the server, in
\* this order; it returns with the PID file gone and the data directory there.
C6_FreshInstallOrder ==
    (RunOver /\ branch = "fresh" /\ Has(raw, K_initdb) /\ raw[K_initdb] # <<>>
        /\ AllSucceeded) =>
        /\ result = "returned"
        /\ retval = Location
        /\ Steps = FreshLifecycle
        /\ ~pidFile
        /\ pgdataExists

\* the scenario of the spec: port, initdb = TRUE and two commands
C6_Witness ==
    /\ RunOver
    /\ branch = "fresh"
    /\ raw = O_scenario
    /\ AllSucceeded
    /\ result = "returned"
    /\ Len(SelectSeq(trace, IsCmd)) = 2

(* --------------------------------- C7 ---------------------------------- *)

\* C7: uninstall on a started instance issues the stop command through the
\* pg_ctl wrapper script whose path install recorded in the options, waits
\* the settle period and returns, leaving the data directory and the scripts.
C7_UninstallStopsThroughWrapper ==
    (RunOver /\ op = "uninstall" /\ stopSaw = "pid") =>
        /\ Len(trace) >= 1
        /\ trace[1].op = "call"
        /\ trace[1].argv = <<raw[C_pg_ctl], <<"stop">>>>
        /\ trace[1].rc = 0 => (trace = <<trace[1], Sleep(4)>> /\ result = "returned")
        /\ pgdataExists
        /\ raw[C_pg_ctl] \in DOMAIN scripts

(* --------------------------------- C8 ---------------------------------- *)

\* C8: stopdb, in install and in uninstall alike, issues the stop command if
\* and only if postmaster.pid exists when it is called; without the PID file
\* it runs no subprocess, does not wait and returns; a stop that was issued
\* is followed by the 4-unit settle wait before stopdb returns.
C8_StopIffPidFile ==
    (RunOver /\ stopSaw # "none") =>
        /\ (\E i \in 1..Len(trace) : IsStop(trace[i])) <=> stopSaw = "pid"
        /\ stopSaw = "nopid" =>
              /\ result = "returned"
              /\ \A i \in 1..Len(trace) : trace[i] # Sleep(4)
              /\ op = "uninstall" => trace = <<>>
        /\ \A i \in 1..Len(trace) :
              (IsStop(trace[i]) /\ trace[i].rc = 0) =>
                  /\ i < Len(trace)
                  /\ trace[i + 1] = Sleep(4)
                  /\ result = "returned"

\* C8 holds of the stopdb that install reaches, and of uninstall on an
\* instance that was never started
StopIffPidFileElsewhere ==
    (op = "install" \/ stopSaw = "nopid") => C8_StopIffPidFile

(* --------------------------------- C9 ---------------------------------- *)

\* the options that are server directives
Directives == {k \in DOMAIN options : Len(k) > 7 /\ SubSeq(k, 1, 7) = CONFIG_PREFIX}

\* the lines of postgresql.local.conf, and the key of a line: what stands
\* before " = "
LocalLines == splitlines(localConf.text)

KeyOf(line) ==
    SubSeq(line, 1, (CHOOSE i \in 1..Len(line) : line[i] = " = ") - 1)

\* the override file of O_directives, written out
DirectivesText ==
    K_listen_addresses \o <<" = ", "''", "\n">>
        \o K_max_connections \o <<" = ", "100", "\n">>
        \o K_port \o <<" = ", "5433", "\n">>
        \o K_unix_socket_directories \o <<" = ", "'", "/data/pg", "'", "\n">>
        \o K_unix_socket_permissions \o <<" = ", "0700">>

\* C9: after a successful configure() postgresql.local.conf holds one line
\* "bare-key = value" for every config.* option of the resolved options and
\* no other line, in ascending key order, whatever the file held before.
C9_OverrideRegenerated ==
    Configured =>
        /\ localConf.exists
        /\ Len(LocalLines) = Cardinality(Directives)
        /\ \A k \in Directives :
              \E i \in 1..Len(LocalLines) :
                  LocalLines[i] = SubSeq(k, 8, Len(k)) \o <<" = ">> \o options[k]
        /\ \A i \in 1..(Len(LocalLines) - 1) :
              StrLess(KeyOf(LocalLines[i]), KeyOf(LocalLines[i + 1]))
        /\ raw = O_directives => localConf.text = DirectivesText

\* a second run over an existing override file, with a port directive and
\* the three defaults
C9_Witness ==
    /\ Configured
    /\ runs = 2
    /\ branch = "existing"
    /\ (CONFIG_PREFIX \o K_max_connections) \notin Directives
    /\ K_config_port \in Directives
    /\ Len(LocalLines) = 4

(* --------------------------------- C10 --------------------------------- *)

\* C10: an explicit port becomes the client port and the value of
\* config.port; without port and config.port the client port is 5432, no
\* config.port option is added and the override file configure writes has no
\* port line.
C10_PortAsymmetry ==
    (op # "none" /\ ~LacksMandatory(raw)) =>
        /\ Has(raw, K_port) =>
              /\ self.port = raw[K_port]
              /\ Has(options, K_config_port)
              /\ options[K_config_port] = raw[K_port]
        /\ (~Has(raw, K_port) /\ ~Has(raw, K_config_port)) =>
              /\ self.port = <<"5432">>
              /\ ~Has(options, K_config_port)
              /\ Configured =>
                    \A i \in 1..Len(LocalLines) : KeyOf(LocalLines[i]) # K_port

\* configure has written the override file of options without any port
C10_Witness ==
    /\ Configured
    /\ op = "install"
    /\ ~Has(raw, K_port)
    /\ ~Has(raw, K_config_port)
    /\ self.pg_client_env = <<"PGHOST=", "'", "/data/pg", "'", " PGPORT=", "5432">>
    /\ Len(LocalLines) = 3

(* --------------------------------- C11 --------------------------------- *)

\* the six commands that get a script: four wrappers, two dispatchers
ScriptedCommands ==
    { C_pg_ctl, C_postgres, C_psql, C_pg_isready,
      PartName \o <<"_", "s", "e", "r", "v", "e", "r">>,
      PartName \o <<"_", "c", "l", "i", "e", "n", "t">> }

\* install() has been entered and is past create_bin_scripts
PastScripts == op = "install" /\ result # "UserError" /\ pc # "scripts"

\* C11: in every install/update run, on both branches and whatever fails
\* later, writing the six scripts is the first thing the run does, before any
\* subprocess and any configuration file; from then on the six files exist
\* and the options map each command name to its path under bin-directory.
C11_ScriptsFirst ==
    /\ (op = "install" /\ trace # <<>>) => trace[1] = ScriptsWritten
    /\ PastScripts =>
          /\ trace # <<>>
          /\ \A c \in ScriptedCommands :
                /\ Has(options, c)
                /\ options[c] = options[K_bin_directory] \o <<"/">> \o c
                /\ options[c] \in DOMAIN scripts

\* a fresh install that failed at the readiness loop, scripts in place
C11_Witness ==
    /\ PastScripts
    /\ RunOver
    /\ branch = "fresh"
    /\ result = "RuntimeError"
    /\ Cardinality(DOMAIN scripts) = 6

(* --------------------------------- C12 --------------------------------- *)

\* where the run called the initialization binary
InitdbAt == {i \in 1..Len(trace) : IsInitdb(trace[i])}

\* C12: the initialization binary is called only with initdb arguments
\* configured and the data directory absent at that moment; when it exits
\* non-zero the error ends the run there: no configure, start, probe,
\* command or stop follows.
C12_InitdbGuardAndFailure ==
    [][ /\ (Len(trace') = Len(trace) + 1 /\ IsInitdb(trace'[Len(trace')])) =>
              /\ ~pgdataExists
              /\ Get(options, K_initdb, <<>>) # <<>>
              /\ InitdbAt = {}
        /\ \A i \in 1..Len(trace') :
              (IsInitdb(trace'[i]) /\ trace'[i].rc # 0) =>
                  /\ i = Len(trace')
                  /\ pc' = "idle"
                  /\ result' = "CalledProcessError"
                  /\ retval' = <<>>
                  /\ ~pgdataExists' ]_vars

\* initdb has failed on a fresh install
C12_Witness ==
    /\ RunOver
    /\ branch = "fresh"
    /\ result = "CalledProcessError"
    /\ InitdbAt = {Len(trace)}
    /\ ~pgdataExists

(* --------------------------------- C13 --------------------------------- *)

\* the step is the one in which startdb raises
StartFails ==
    /\ pc \in {"start", "poll"}
    /\ result' \in {"CalledProcessError", "RuntimeError"}

\* the start command of the run has exited non-zero
StartRefused == \E i \in 1..Len(trace) : IsStart(trace[i]) /\ trace[i].rc # 0

\* the readiness loop of the run has used up its attempts
ReadinessTimedOut ==
    Cardinality({i \in 1..Len(trace) : IsProbe(trace[i]) /\ trace[i].rc # 0})
        = ReadinessAttempts

\* C13: when startdb fails during a fresh install (start exits non-zero, or
\* readiness times out) install ends there: no command of the list and no
\* stop is run, nothing is returned, and the data directory, postgresql.conf
\* with its include directive and the override file are left as configure
\* wrote them.
C13_NoRollbackOnFailedStart ==
    [][ /\ StartFails =>
              /\ branch = "fresh"
              /\ pc' = "idle"
              /\ UNCHANGED <<pgdataExists, mainConf, localConf, retval, installed>>
        /\ (StartRefused' \/ ReadinessTimedOut') =>
              /\ pc' = "idle"
              /\ result' = (IF StartRefused' THEN "CalledProcessError" ELSE "RuntimeError")
              /\ \A i \in 1..Len(trace') : ~IsCmd(trace'[i]) /\ ~IsStop(trace'[i])
              /\ StartRefused' => IsStart(trace'[Len(trace')])
              /\ pgdataExists'
              /\ mainConf'.exists
              /\ IncludeLines(mainConf'.text) >= 1
              /\ localConf' = File(local_conf(options')) ]_vars

\* the start command failed after configure had written both files
C13_Witness ==
    /\ RunOver
    /\ branch = "fresh"
    /\ StartRefused
    /\ result = "CalledProcessError"
    /\ Configured
    /\ self.cmds # <<>>

\* readiness timed out with commands configured
C13_WitnessTimeout ==
    /\ RunOver
    /\ branch = "fresh"
    /\ ReadinessTimedOut
    /\ result = "RuntimeError"
    /\ self.cmds # <<>>
    /\ pidFile

(* --------------------------------- C14 --------------------------------- *)

\* the step runs configure()
ConfigureRuns == pc = "configure" \/ (pc = "branch" /\ pgdataExists)

\* C14: whenever configure() runs and postgresql.conf cannot be read (as on
\* a fresh install without initdb arguments, where the data directory stays
\* absent), it fails before the override file is written, and install ends
\* without start, probe, command or stop.
C14_ConfigureNeedsMainConf ==
    [][ /\ (ConfigureRuns /\ ~mainConf.exists) =>
              /\ result' = "IOError"
              /\ pc' = "idle"
              /\ UNCHANGED <<mainConf, localConf, trace, retval, installed, pidFile>>
        /\ (pc = "branch" /\ ~pgdataExists /\ Get(options, K_initdb, <<>>) = <<>>) =>
              /\ pc' = "configure"
              /\ ~mainConf'.exists
              /\ UNCHANGED <<trace, pgdataExists>>
        /\ result' = "IOError" =>
              /\ pc' = "idle"
              /\ ~Configured'
              /\ \A i \in 1..Len(trace') :
                    ~IsCall(trace'[i]) \/ (IsInitdb(trace'[i]) /\ trace'[i].rc = 0) ]_vars

\* a fresh install without initdb arguments has failed in configure
C14_Witness ==
    /\ RunOver
    /\ branch = "fresh"
    /\ result = "IOError"
    /\ ~Has(options, K_initdb)
    /\ ~pgdataExists
    /\ ~localConf.exists

(* --------------------------------- C15 --------------------------------- *)

\* the server-control commands and the readiness probes of the run
StartAt == {i \in 1..Len(trace) : IsStart(trace[i])}
ProbesAt == {i \in 1..Len(trace) : IsProbe(trace[i])}

C16_CmdsOneTime ==
    [][ /\ pgdataExists => pgdataExists'
        /\ Cardinality(initRuns') <= 1
        /\ Cardinality(cmdRuns') <= 1
        /\ cmdRuns' \subseteq initRuns'
        /\ (op' = "install" /\ \E i \in 1..Len(trace') : IsCmd(trace'[i])) =>
              /\ branch' = "fresh"
              /\ cmdRuns' = {runs'}
        /\ (initRuns # {} /\ runs \notin initRuns) => cmdRuns' = cmdRuns ]_vars

\* the initializing run failed to start the server; two runs later
\* the commands have still not been executed
C16_Witness ==
    /\ RunOver
    /\ runs = 3
    /\ initRuns = {1}
    /\ cmdRuns = {}
    /\ self.cmds # <<>>
    /\ result = "returned"

\* the commands were executed in the first run and in no later one
C16_WitnessRan ==
    /\ RunOver
    /\ runs = 3
    /\ cmdRuns = {1}
    /\ op = "install"
    /\ self.cmds # <<>>
    /\ result = "returned"

(* --------------------------------- C17 --------------------------------- *)

\* the server options of a mapping
ConfigOptions(o) == [k \in {n \in DOMAIN o : IsConfigName(n)} |-> o[k]]

\* C17: resolving the options install recorded once more, as uninstall does,
\* yields the server options of the first resolution; with no port given the
\* second resolution adds no config.port either.
C17_ResolutionIdempotent ==
    op = "uninstall" =>
        /\ ConfigOptions(options) = ConfigOptions(raw)
        /\ ~Has(raw, K_config_port) => ~Has(options, K_config_port)

====
